---- MODULE Spec2Model ----
(***************************************************************************)
(* bionic/code_references.py: get_code_context builds a CodeContext for a  *)
(* callable, get_referenced_objects walks the callable's instructions      *)
(* with a one-register abstract stack (tos) and collects the referenced    *)
(* objects (refs).  The callers modelled are the get_references helper of  *)
(* tests/test_code_references.py (a context per extraction) and a caller   *)
(* that hands one CodeContext to get_referenced_objects more than once.    *)
(***************************************************************************)
EXTENDS Integers, Sequences, FiniteSets, TLC

VARIABLES func, code, context, tos, lineno, refs, warned, i, pc, exc, results, uses,
          peer

\* the caller's callable, context and call frame
caller == <<func, code, context, tos, lineno, refs, warned, i, pc, exc, results, uses>>

vars == <<caller, peer>>

\* ---------------------------------------------------------------- bounds

\* longest instruction stream drawn
MaxLen == 3
\* longest co_freevars / __closure__ tuple drawn
MaxCells == 2
\* calls of get_referenced_objects in one behaviour
MaxCalls == 2
\* longest instruction stream of two callers that run side by side
MaxParLen == 2

\* ---------------------------------------------------------- Python values

\* A Python value is a record [k: its type, v: its text]; every field is a
\* string, so any two values can be compared.
None == [k |-> "None", v |-> ""]
PyStr(s) == [k |-> "str", v |-> s]
PyInt(s) == [k |-> "int", v |-> s]
Obj(s) == [k |-> "object", v |-> s]
Module(s) == [k |-> "module", v |-> s]

\* starts_line / lineno None
NoLine == 0
\* no exception in flight
NoExc == <<>>
\* no CodeContext built yet
NoContext == [cells |-> <<>>, varnames |-> <<>>, built |-> FALSE]

\* the objects of the modelled namespace
ObjG == Obj("G")
ObjGa == Obj("G.a")
ModM == Module("m")
Recv == Obj("recv")
EmptyList == [k |-> "list", v |-> "[]"]

\* isinstance(t, str)
IsStr(t) == t.k = "str"

\* a truth test every value passes
TruthyOfAny(t) == TRUE

\* bool(t): None, 0, "" and an empty collection are falsy
Truthy(t) == t \notin {None, PyInt("0"), PyStr(""), EmptyList}

\* the attributes the objects have: G.a, G.a.a (bound to None), m.a, recv.a;
\* no object has an attribute b
Attributes ==
  (<<ObjG, "a">> :> ObjGa) @@ (<<ObjGa, "a">> :> None) @@
  (<<ModM, "a">> :> ObjG) @@ (<<Recv, "a">> :> PyStr("42"))

\* hasattr(t, a)
HasAttr(t, a) == <<t, a>> \in DOMAIN Attributes

\* getattr(t, a), where it does not raise
getattr(t, a) == Attributes[<<t, a>>]

\* the module names importlib.import_module resolves
Importable == {"m"}

\* ------------------------------------------------------ exception classes

\* A class is named by the module that defines it and its name in it: two
\* classes of one name in two modules are two classes.
Class(module, name) == [module |-> module, name |-> name]
Builtin(name) == Class("builtins", name)

\* An exception class is its __mro__, the sequence of the classes it derives
\* from, itself first; a class defined by a program is written the same way,
\* with the classes it derives from behind it.
BaseException == <<Builtin("BaseException"), Builtin("object")>>
Exception == <<Builtin("Exception")>> \o BaseException
LookupError == <<Builtin("LookupError")>> \o Exception
KeyError == <<Builtin("KeyError")>> \o LookupError
AttributeError == <<Builtin("AttributeError")>> \o Exception
ValueError == <<Builtin("ValueError")>> \o Exception
RuntimeError == <<Builtin("RuntimeError")>> \o Exception
TypeError == <<Builtin("TypeError")>> \o Exception
AssertionError == <<Builtin("AssertionError")>> \o Exception
SystemExit == <<Builtin("SystemExit")>> \o BaseException
UserWarning == <<Builtin("UserWarning"), Builtin("Warning")>> \o Exception

\* c.__name__
ClassName(c) == c[1].name

\* the module names for which importlib.import_module raises something other
\* than ImportError: the empty name of a relative import (from . import x),
\* a module whose own code raises when it is imported, and a module whose
\* code calls sys.exit()
ImportRaises ==
  ("" :> ValueError) @@ ("boom_mod" :> RuntimeError) @@ ("exit_mod" :> SystemExit)

\* ------------------------------------------------------------------ dicts

EmptyDict == [x \in {} |-> None]

\* d[k] = v
DictSet(d, k, v) == [x \in (DOMAIN d) \cup {k} |-> IF x = k THEN v ELSE d[x]]

\* del d[k], k present
DictDel(d, k) == [x \in (DOMAIN d) \ {k} |-> d[x]]

Range(s) == {s[n] : n \in DOMAIN s}

\* dict(zip(ks, vs)) laid over d: zip stops at the shorter sequence, a later
\* pair overrides an earlier one
RECURSIVE DictUpdateZip(_, _, _)
DictUpdateZip(d, ks, vs) ==
  IF ks = <<>> \/ vs = <<>> THEN d
  ELSE DictUpdateZip(DictSet(d, Head(ks), Head(vs)), Tail(ks), Tail(vs))

\* ---------------------------------------------------------- instructions

Ins(o, a, l) == [opname |-> o, argval |-> a, starts_line |-> l]

\* the instructions streams are drawn from: one per branch of the dispatch,
\* unmarked, the import of a module that exits the interpreter, and two that
\* start a source line, a load and the import of a relative import
\* (from . import x), for which import_module raises
Instrs ==
  { Ins("LOAD_GLOBAL", "g", NoLine), Ins("LOAD_DEREF", "c", NoLine),
    Ins("IMPORT_NAME", "m", NoLine), Ins("IMPORT_NAME", "q", NoLine),
    Ins("LOAD_ATTR", "a", NoLine), Ins("LOAD_ATTR", "b", NoLine),
    Ins("DELETE_FAST", "self", NoLine), Ins("STORE_FAST", "self", NoLine),
    Ins("LOAD_FAST", "self", NoLine), Ins("RETURN_VALUE", "", NoLine),
    Ins("LOAD_GLOBAL", "g", 1), Ins("IMPORT_NAME", "", 2),
    Ins("IMPORT_NAME", "exit_mod", NoLine) }

\* the streams of at most n instructions
Codes(n) == UNION {[1..m -> Instrs] : m \in 0..n}

\* -------------------------------------------------------------- callables

\* the sequences over S of length at most n
SeqsUpTo(S, n) == UNION {[1..m -> S] : m \in 0..n}

\* the sequences over S without a repeated element
Distinct(s) == \A m, n \in DOMAIN s : m # n => s[m] # s[n]

\* func.__globals__: g unbound, or bound to an object, None, 0 or a string
GlobalDicts ==
  {EmptyDict} \cup {[x \in {"g"} |-> v] : v \in {ObjG, None, PyInt("0"), PyStr("42")}}

\* func.__closure__: None (has_closure FALSE) or a tuple of cells, of which
\* closure holds the cell_contents
Closures(cellvals, n) ==
  {[has_closure |-> FALSE, closure |-> <<>>]}
    \cup {[has_closure |-> TRUE, closure |-> cl] : cl \in SeqsUpTo(cellvals, n)}

\* A callable: co_cellvars and co_freevars are free of repetitions (the
\* compiler's symbol table), self is func.__self__ of a bound method.
Funcs(cellnames, cellvals, n) ==
  { [globals |-> g, co_cellvars |-> cv, co_freevars |-> fv,
     has_closure |-> c.has_closure, closure |-> c.closure,
     ismethod |-> m, self |-> IF m THEN Recv ELSE None] :
      g \in GlobalDicts,
      cv \in {s \in SeqsUpTo(cellnames, 1) : Distinct(s)},
      fv \in {s \in SeqsUpTo(cellnames, n) : Distinct(s)},
      c \in Closures(cellvals, n),
      m \in BOOLEAN }

\* --------------------------------------------------------- get_code_context

\* for var in code.co_cellvars: cells[var] = var
CellvarEntries(f) == [x \in Range(f.co_cellvars) |-> PyStr(x)]

\* The exception of "assert len(code.co_freevars) == len(func.__closure__)",
\* NoExc if it passes: len(None) raises TypeError. optimize is the
\* interpreter's -O flag, under which the statement is not compiled.
AssertRaises(f, optimize) ==
  IF optimize THEN NoExc
  ELSE IF ~f.has_closure THEN TypeError
  ELSE IF Len(f.co_freevars) # Len(f.closure) THEN AssertionError
  ELSE NoExc

\* the exception of map(lambda c: c.cell_contents, func.__closure__), NoExc
\* if there is none: None is not iterable
MapRaises(f) == IF ~f.has_closure THEN TypeError ELSE NoExc

\* the exception of the block under "if code.co_freevars:", NoExc if none
FreevarsRaises(f, optimize) ==
  IF f.co_freevars = <<>> THEN NoExc
  ELSE IF AssertRaises(f, optimize) # NoExc THEN AssertRaises(f, optimize)
  ELSE MapRaises(f)

\* a varnames dict shared by the contexts: the one the last context holds
SeedVarnamesShared(f) ==
  IF context.built THEN context.varnames
  ELSE IF f.ismethod THEN [x \in {"self"} |-> f.self] ELSE EmptyDict

\* a context that forgets the receiver of a bound method
SeedVarnamesEmpty(f) == EmptyDict

\* varnames = {}, or {"self": func.__self__} for a bound method
SeedVarnames(f) ==
  IF f.ismethod THEN [x \in {"self"} |-> f.self] ELSE EmptyDict

\* the context, or the exception raised instead
get_code_context(f, optimize) ==
  IF FreevarsRaises(f, optimize) # NoExc
  THEN [exc |-> FreevarsRaises(f, optimize), context |-> NoContext]
  ELSE [exc |-> NoExc,
        context |->
          [cells |-> IF f.co_freevars # <<>>
                     THEN DictUpdateZip(CellvarEntries(f), f.co_freevars, f.closure)
                     ELSE CellvarEntries(f),
           varnames |-> SeedVarnames(f),
           built |-> TRUE]]

\* ---------------------------------------------------- get_referenced_objects

\* The walk's state: [tos, lineno, refs, varnames, warned, exc]. varnames is
\* the dict context.varnames, which the walk writes in place; warned is the
\* sequence of warnings.warn calls; exc is an exception leaving the function.

\* the walk's state on entry, given the dict context.varnames
EnterWalk(varnames) ==
  [tos |-> None, lineno |-> NoLine, refs |-> <<>>, varnames |-> varnames,
   warned |-> <<>>, exc |-> NoExc]

\* a set_tos that appends the old tos without a test for None
set_tos_unguarded(S, t) == [S EXCEPT !.refs = Append(S.refs, S.tos), !.tos = t]

\* a set_tos that appends the old tos twice
set_tos_twice(S, t) ==
  [S EXCEPT !.refs = IF S.tos # None THEN Append(Append(S.refs, S.tos), S.tos)
                     ELSE S.refs,
            !.tos = t]

\* a set_tos that skips a value refs already holds
set_tos_dedup(S, t) ==
  [S EXCEPT !.refs = IF S.tos # None /\ S.tos \notin Range(S.refs)
                     THEN Append(S.refs, S.tos) ELSE S.refs,
            !.tos = t]

set_tos(S, t) ==
  [S EXCEPT !.refs = IF S.tos # None THEN Append(S.refs, S.tos) ELSE S.refs,
            !.tos = t]

\* a lineno that follows every instruction's starts_line, None included
TrackLineAlways(S, op) == [S EXCEPT !.lineno = op.starts_line]

\* if op.starts_line is not None: lineno = op.starts_line
TrackLine(S, op) ==
  IF op.starts_line # NoLine THEN [S EXCEPT !.lineno = op.starts_line] ELSE S

IsAttrOp(op) == op.opname \in {"LOAD_METHOD", "LOAD_ATTR", "IMPORT_FROM"}

\* The exception the dispatch of op raises in state S, NoExc if none: a
\* missing key of context.cells, an import_module that raises something the
\* branch's except ImportError does not catch, a failing getattr, a del of a
\* missing key of context.varnames. Each is raised before the branch has
\* written anything.
Raised(S, op, cells) ==
  IF op.opname \in {"LOAD_DEREF", "LOAD_CLOSURE"} /\ op.argval \notin DOMAIN cells
    THEN KeyError
  ELSE IF op.opname = "IMPORT_NAME" /\ op.argval \in DOMAIN ImportRaises
    THEN ImportRaises[op.argval]
  ELSE IF IsAttrOp(op) /\ S.tos # None /\ ~IsStr(S.tos) /\ ~HasAttr(S.tos, op.argval)
    THEN AttributeError
  ELSE IF op.opname = "DELETE_FAST" /\ Truthy(S.tos)
          /\ op.argval \notin DOMAIN S.varnames
    THEN KeyError
  ELSE NoExc

\* LOAD_GLOBAL, LOAD_NAME
LoadGlobal(S, op, globals) ==
  IF op.argval \in DOMAIN globals THEN set_tos(S, globals[op.argval])
  ELSE set_tos(S, PyStr(op.argval))

\* a load that takes the variable's name for its value
LoadDerefName(S, op, cells) == set_tos(S, PyStr(op.argval))

\* LOAD_DEREF, LOAD_CLOSURE
LoadDeref(S, op, cells) == set_tos(S, cells[op.argval])

\* IMPORT_NAME where import_module returns or raises ImportError: the module,
\* or its name on ImportError
ImportName(S, op) ==
  IF op.argval \in Importable THEN set_tos(S, Module(op.argval))
  ELSE set_tos(S, PyStr(op.argval))

\* an attribute load that keeps a bare attribute name pending
LoadAttrPending(S, op) ==
  IF S.tos = None THEN [S EXCEPT !.tos = PyStr(op.argval)]
  ELSE IF IsStr(S.tos) THEN [S EXCEPT !.tos = PyStr(S.tos.v \o "." \o op.argval)]
  ELSE [S EXCEPT !.tos = getattr(S.tos, op.argval)]

\* an attribute load that commits the name so far and starts a new one
LoadAttrSplit(S, op) ==
  IF S.tos = None THEN [S EXCEPT !.refs = Append(S.refs, PyStr(op.argval))]
  ELSE IF IsStr(S.tos) THEN set_tos(S, PyStr(op.argval))
  ELSE [S EXCEPT !.tos = getattr(S.tos, op.argval)]

\* LOAD_METHOD, LOAD_ATTR, IMPORT_FROM
LoadAttr(S, op) ==
  IF S.tos = None THEN [S EXCEPT !.refs = Append(S.refs, PyStr(op.argval))]
  ELSE IF IsStr(S.tos) THEN [S EXCEPT !.tos = PyStr(S.tos.v \o "." \o op.argval)]
  ELSE [S EXCEPT !.tos = getattr(S.tos, op.argval)]

\* DELETE_FAST with a truthy tos
DeleteFast(S, op) ==
  [S EXCEPT !.varnames = DictDel(S.varnames, op.argval), !.tos = None]

\* STORE_FAST with a truthy tos
StoreFast(S, op) ==
  [S EXCEPT !.varnames = DictSet(S.varnames, op.argval, S.tos), !.tos = None]

\* a load of a local that takes its name for its value
LoadFastName(S, op) == set_tos(S, PyStr(op.argval))

\* LOAD_FAST of a key of context.varnames
LoadFast(S, op) == set_tos(S, S.varnames[op.argval])

\* a default branch that appends tos and keeps it pending
OtherOpKeep(S) ==
  IF S.tos # None THEN [S EXCEPT !.refs = Append(S.refs, S.tos)] ELSE S

\* a default branch without the test for None
OtherOpAlways(S) == [S EXCEPT !.refs = Append(S.refs, S.tos), !.tos = None]

\* every other instruction: the current tos goes to refs
OtherOp(S) ==
  IF S.tos # None THEN [S EXCEPT !.refs = Append(S.refs, S.tos), !.tos = None]
  ELSE S

\* the if/elif chain of the try block, where it does not raise
Branch(S, op, globals, cells) ==
  IF op.opname \in {"LOAD_GLOBAL", "LOAD_NAME"} THEN LoadGlobal(S, op, globals)
  ELSE IF op.opname \in {"LOAD_DEREF", "LOAD_CLOSURE"} THEN LoadDeref(S, op, cells)
  ELSE IF op.opname = "IMPORT_NAME" THEN ImportName(S, op)
  ELSE IF IsAttrOp(op) THEN LoadAttr(S, op)
  ELSE IF op.opname = "DELETE_FAST" /\ Truthy(S.tos) THEN DeleteFast(S, op)
  ELSE IF op.opname = "STORE_FAST" /\ Truthy(S.tos) THEN StoreFast(S, op)
  ELSE IF op.opname = "LOAD_FAST" /\ op.argval \in DOMAIN S.varnames
    THEN LoadFast(S, op)
  ELSE OtherOp(S)

\* issubclass(c, d): the class d is one of the classes of c.__mro__
IsSubclass(c, d) == d[1] \in Range(c)

\* except Exception: an exception is caught when its class derives from the
\* built-in Exception
Caught(e) == IsSubclass(e, Exception)

\* The actions the warnings filter in force can take for a warning: "error"
\* turns it into an exception; "default" stands for the others (default,
\* always, module, once, ignore), with which warnings.warn returns.
WarnActions == {"default", "error"}

\* The except block: warnings.warn is called with the line and the error's
\* text. It returns, or under the action "error" it raises the UserWarning,
\* from inside the handler and so out of get_referenced_objects.
Handler(S, op, e, action) ==
  IF action = "error" THEN [S EXCEPT !.exc = UserWarning]
  ELSE [S EXCEPT !.warned = Append(S.warned, [line |-> S.lineno, exc |-> ClassName(e),
                                              arg |-> op.argval])]

\* one iteration of the for loop, action being the warnings filter's
\* action for a warning given now
Dispatch(S, op, globals, cells, action) ==
  LET S1 == TrackLine(S, op)
      e == Raised(S1, op, cells)
  IN IF e = NoExc THEN Branch(S1, op, globals, cells)
     ELSE IF Caught(e) THEN Handler(S1, op, e, action)
     ELSE [S1 EXCEPT !.exc = e]

\* the for loop over the instructions ops, from state S, under one action of
\* the warnings filter
RECURSIVE Walk(_, _, _, _, _)
Walk(S, ops, globals, cells, action) ==
  IF ops = <<>> \/ S.exc # NoExc THEN S
  ELSE Walk(Dispatch(S, Head(ops), globals, cells, action), Tail(ops), globals, cells,
            action)

\* return refs
Returned(S) == S.refs

\* ----------------------------------------------------------------- actions

\* results holds, per call of get_referenced_objects that returned, the list
\* returned and the number of calls its CodeContext had been given to (uses).

\* the walk's state as the variables hold it
Cur ==
  [tos |-> tos, lineno |-> lineno, refs |-> refs, varnames |-> context.varnames,
   warned |-> warned, exc |-> exc]

\* context.globals is func.__globals__ itself, not a copy
CtxGlobals == func.globals

\* a write of the locals that lands in context.cells as well
SetCurIntoCells(S) ==
  /\ tos' = S.tos
  /\ lineno' = S.lineno
  /\ refs' = S.refs
  /\ warned' = S.warned
  /\ context' = [context EXCEPT !.varnames = S.varnames,
                                !.cells = [x \in DOMAIN S.varnames \cup DOMAIN context.cells |->
                                             IF x \in DOMAIN S.varnames THEN S.varnames[x]
                                             ELSE context.cells[x]]]
  /\ exc' = S.exc

SetCur(S) ==
  /\ tos' = S.tos
  /\ lineno' = S.lineno
  /\ refs' = S.refs
  /\ warned' = S.warned
  /\ context' = [context EXCEPT !.varnames = S.varnames]
  /\ exc' = S.exc

\* no second caller
PeerOff == [pc |-> "off"]

\* the first caller before get_references(func)
InitCaller(fs, cs) ==
  /\ func \in fs
  /\ code \in cs
  /\ context = NoContext
  /\ tos = None
  /\ lineno = NoLine
  /\ refs = <<>>
  /\ warned = <<>>
  /\ i = 0
  /\ pc = "start"
  /\ exc = NoExc
  /\ results = <<>>
  /\ uses = 0

InitWith(fs, cs) == InitCaller(fs, cs) /\ peer = PeerOff

\* context = get_code_context(func), in an interpreter run with or without -O
BuildContext ==
  /\ \E optimize \in BOOLEAN :
       LET r == get_code_context(func, optimize)
       IN /\ context' = r.context
          /\ exc' = r.exc
          /\ pc' = IF r.exc = NoExc THEN "built" ELSE "raised"
  /\ uses' = 0
  /\ UNCHANGED <<func, code, tos, lineno, refs, warned, i, results, peer>>

\* get_referenced_objects(func.__code__, context) is entered
EnterCall ==
  /\ SetCur(EnterWalk(context.varnames))
  /\ i' = 0
  /\ pc' = "walk"
  /\ uses' = uses + 1
  /\ UNCHANGED <<func, code, results, peer>>

\* the loop body for the next instruction, under the action the warnings
\* filter takes at that moment
Step ==
  /\ pc = "walk"
  /\ i < Len(code)
  /\ \E action \in WarnActions :
       LET S == Dispatch(Cur, code[i + 1], CtxGlobals, context.cells, action)
       IN /\ SetCur(S)
          /\ pc' = IF S.exc = NoExc THEN "walk" ELSE "raised"
  /\ i' = i + 1
  /\ UNCHANGED <<func, code, results, uses, peer>>

\* the loop is over: return refs
Return ==
  /\ pc = "walk"
  /\ i = Len(code)
  /\ pc' = "done"
  /\ results' = Append(results, [refs |-> Returned(Cur), uses |-> uses])
  /\ UNCHANGED <<func, code, context, tos, lineno, refs, warned, i, exc, uses, peer>>

\* get_references(func), first half: the context is built
GetCodeContext == pc = "start" /\ BuildContext

\* get_references(func), second half: the walk is entered with that context
Call == pc = "built" /\ EnterCall

\* get_references(func) once more: a new context for the same callable
GetCodeContextAgain == pc = "done" /\ Len(results) < MaxCalls /\ BuildContext

\* get_referenced_objects(func.__code__, context) once more, with the
\* CodeContext object the last call was given
CallAgain == pc = "done" /\ Len(results) < MaxCalls /\ EnterCall

Next == GetCodeContext \/ Call \/ Step \/ Return

NextAgain == Next \/ GetCodeContextAgain \/ CallAgain

\* co_cellvars and co_freevars name different variables
DisjointCaptures(f) == Range(f.co_cellvars) \cap Range(f.co_freevars) = {}

\* callables as the interpreter makes them (__closure__ is None without free
\* variables and has a cell per free variable otherwise), and the one with a
\* free variable and no closure
WalkFuncs ==
  {f \in Funcs({"c"}, {PyStr("42")}, 1) :
     /\ DisjointCaptures(f)
     /\ f.has_closure => Len(f.closure) = Len(f.co_freevars) /\ f.closure # <<>>}

Init == InitWith(WalkFuncs, Codes(MaxLen))

Spec == Init /\ [][Next]_vars

\* repeated extractions: the callables whose context is built
AgainFuncs ==
  {f \in WalkFuncs : f.globals \in {EmptyDict, [x \in {"g"} |-> ObjG]}
                       /\ FreevarsRaises(f, FALSE) = NoExc}

InitAgain == InitWith(AgainFuncs, Codes(MaxLen))

SpecAgain == InitAgain /\ [][NextAgain]_vars

\* context construction: callables put together freely, closures of any
\* length beside the free variables, over the one-instruction streams
CtxFuncs ==
  {f \in Funcs({"c", "d", "e"}, {PyStr("42"), ObjG}, MaxCells) : DisjointCaptures(f)}

InitCtx == InitWith(CtxFuncs, Codes(1))

SpecCtx == InitCtx /\ [][Next]_vars

\* -------------------------------------------- a namespace that is written
\* The module of the callable binds a new global h while the context built
\* from the callable is in use: func.__globals__ is the module's dict, and
\* context.globals is that dict.

MutInstrs ==
  { Ins("LOAD_GLOBAL", "g", NoLine), Ins("LOAD_GLOBAL", "h", NoLine),
    Ins("LOAD_DEREF", "c", NoLine), Ins("LOAD_ATTR", "b", NoLine),
    Ins("STORE_FAST", "self", NoLine), Ins("RETURN_VALUE", "", NoLine) }

MutCodes == UNION {[1..m -> MutInstrs] : m \in 0..MaxLen}

\* h = G in the callable's module, once the context is built
SetGlobal ==
  /\ pc \in {"built", "walk"}
  /\ "h" \notin DOMAIN func.globals
  /\ func' = [func EXCEPT !.globals = DictSet(@, "h", ObjG)]
  /\ UNCHANGED <<code, context, tos, lineno, refs, warned, i, pc, exc, results, uses, peer>>

NextMut == Next \/ SetGlobal

InitMut == InitWith(AgainFuncs, MutCodes)

SpecMut == InitMut /\ [][NextMut]_vars

\* one get_references(func) that is not suspended for ever: the calls and the
\* for loop run in one thread, and each step that can be taken is taken
SpecLive == InitMut /\ [][Next]_vars /\ WF_vars(Next)

\* ------------------------------------------------------- a second caller
\* A second get_references(func) on another callable, run side by side with
\* the first: peer holds that caller's callable, its context and the locals
\* of its call of get_referenced_objects.

ParInstrs ==
  { Ins("LOAD_GLOBAL", "g", NoLine), Ins("STORE_FAST", "self", NoLine),
    Ins("LOAD_FAST", "self", NoLine), Ins("RETURN_VALUE", "", NoLine) }

ParCodes == UNION {[1..m -> ParInstrs] : m \in 0..MaxParLen}

\* a function and a bound method of a module that binds g, and a function of
\* a module that does not
ParFuncs ==
  {f \in WalkFuncs :
     /\ f.co_cellvars = <<>> /\ f.co_freevars = <<>> /\ ~f.has_closure
     /\ f.globals \in {EmptyDict, [x \in {"g"} |-> ObjG]}
     /\ f.ismethod => f.globals # EmptyDict}

PeerStart(f, c) ==
  [func |-> f, code |-> c, context |-> NoContext, tos |-> None, lineno |-> NoLine,
   refs |-> <<>>, warned |-> <<>>, exc |-> NoExc, i |-> 0, pc |-> "start",
   results |-> <<>>]

\* a second call frame that reads the first one's tos
PeerCurSharedTos ==
  [tos |-> tos, lineno |-> peer.lineno, refs |-> peer.refs,
   varnames |-> peer.context.varnames, warned |-> peer.warned, exc |-> peer.exc]

\* the locals of the second call, and its context's varnames
PeerCur ==
  [tos |-> peer.tos, lineno |-> peer.lineno, refs |-> peer.refs,
   varnames |-> peer.context.varnames, warned |-> peer.warned, exc |-> peer.exc]

PeerWith(S) ==
  [peer EXCEPT !.tos = S.tos, !.lineno = S.lineno, !.refs = S.refs,
               !.warned = S.warned, !.context.varnames = S.varnames, !.exc = S.exc]

\* the second caller's context = get_code_context(func)
PeerGetCodeContext ==
  /\ peer.pc = "start"
  /\ \E optimize \in BOOLEAN :
       LET r == get_code_context(peer.func, optimize)
       IN peer' = [peer EXCEPT !.context = r.context, !.exc = r.exc,
                               !.pc = IF r.exc = NoExc THEN "built" ELSE "raised"]
  /\ UNCHANGED caller

\* the second caller enters get_referenced_objects
PeerCall ==
  /\ peer.pc = "built"
  /\ peer' = [PeerWith(EnterWalk(peer.context.varnames)) EXCEPT !.i = 0, !.pc = "walk"]
  /\ UNCHANGED caller

\* the second call's loop body for its next instruction
PeerStep ==
  /\ peer.pc = "walk"
  /\ peer.i < Len(peer.code)
  /\ \E action \in WarnActions :
       LET S == Dispatch(PeerCur, peer.code[peer.i + 1], peer.func.globals,
                         peer.context.cells, action)
       IN peer' = [PeerWith(S) EXCEPT !.i = peer.i + 1,
                                      !.pc = IF S.exc = NoExc THEN "walk" ELSE "raised"]
  /\ UNCHANGED caller

\* the second call returns refs
PeerReturn ==
  /\ peer.pc = "walk"
  /\ peer.i = Len(peer.code)
  /\ peer' = [peer EXCEPT !.pc = "done",
                          !.results = Append(peer.results, Returned(PeerCur))]
  /\ UNCHANGED caller

NextPar == Next \/ PeerGetCodeContext \/ PeerCall \/ PeerStep \/ PeerReturn

InitPar ==
  /\ InitCaller(ParFuncs, ParCodes)
  /\ peer \in {PeerStart(f, c) : f \in ParFuncs, c \in ParCodes}

SpecPar == InitPar /\ [][NextPar]_vars

\* -------------------------------------------------------------- properties

\* the instruction the next Step dispatches
NextOp == code[i + 1]

\* the walk's state after the first k instructions of the first call, none
\* of its warnings turned into an exception
At(k) ==
  Walk(EnterWalk(SeedVarnames(func)), SubSeq(code, 1, k), CtxGlobals, context.cells,
       "default")

\* the dispatch of instruction k raises
FailsAt(k) == Raised(TrackLine(At(k - 1), code[k]), code[k], context.cells) # NoExc

\* the next Step's dispatch raises
FailsNow == Raised(TrackLine(Cur, NextOp), NextOp, context.cells) # NoExc

IsPrefix(s, t) == Len(s) <= Len(t) /\ SubSeq(t, 1, Len(s)) = s

\* C1 (as claimed): no exception raised while one instruction is dispatched
\* leaves get_referenced_objects: the only exception a caller sees is the one
\* of get_code_context, raised before any walk; the next instruction of a
\* walk that is not over lets no exception out, whatever the warnings filter
\* does, and a call that is over has returned its refs.
C1_NoDispatchFailurePropagates ==
  /\ pc = "raised" => (uses = 0 /\ ~context.built /\ i = 0)
  /\ pc \in {"built", "walk", "done"} => exc = NoExc
  /\ (pc = "walk" /\ i < Len(code)) =>
       \A action \in WarnActions :
         Dispatch(Cur, NextOp, CtxGlobals, context.cells, action).exc = NoExc
  /\ pc = "done" => (results # <<>> /\ results[Len(results)].refs = refs)

\* C2 (as claimed): a dispatch that fails leaves tos None for the next
\* instruction and commits nothing.
C2_FailureClearsTos ==
  [][(pc = "walk" /\ i < Len(code) /\ FailsNow) => (tos' = None /\ refs' = refs)]_vars

\* C3 (as claimed): a finished walk has warned once per failing instruction,
\* and after each failing instruction k the rest of the stream appends the
\* entries of a walk of that rest from tos None and the local bindings as
\* they were after k.
C3_FaultContainment ==
  pc = "done" =>
    /\ Len(warned) = Cardinality({k \in 1..Len(code) : FailsAt(k)})
    /\ \A k \in 1..Len(code) :
         FailsAt(k) =>
           refs = At(k).refs \o
                  Walk(EnterWalk(At(k).varnames), SubSeq(code, k + 1, Len(code)),
                       CtxGlobals, context.cells, "default").refs

\* C4 (as claimed): a tos that is not None after the last instruction is
\* committed, so it ends the returned list.
C4_PendingCommittedAtEnd ==
  pc = "done" =>
    results[Len(results)].refs = IF tos # None THEN Append(refs, tos) ELSE refs

\* C5: refs is append-only during a walk: a step leaves refs alone or adds
\* one entry at its end, the pending tos or the bare attribute name, and a
\* load that does not raise and commits a pending tos adds it even when refs
\* holds it already.
C5_AppendOnly ==
  [][pc = "walk" =>
       IF i < Len(code)
       THEN /\ IsPrefix(refs, refs')
            /\ refs' \in {refs, Append(refs, tos), Append(refs, PyStr(NextOp.argval))}
            /\ (NextOp.opname \in {"LOAD_GLOBAL", "IMPORT_NAME"} /\ tos # None
                  /\ ~FailsNow)
                 => refs' = Append(refs, tos)
       ELSE refs' = refs]_vars

\* C5 witness: the same value was committed twice and is in refs twice.
C5_Witness ==
  /\ pc = "walk"
  /\ i = 3
  /\ refs = <<ObjG, ObjG>>
  /\ tos = None

\* C6: the extractions that each built their own context for the callable
\* returned the same list.
C6_Idempotent ==
  \A m, n \in DOMAIN results :
    (results[m].uses = 1 /\ results[n].uses = 1) => results[m].refs = results[n].refs

\* C6 witness: two such extractions returned, of a walk that commits a
\* reference and rebinds a local.
C6_Witness ==
  /\ Len(results) = 2
  /\ results[2].uses = 1
  /\ results[1].refs # <<>>
  /\ context.varnames # SeedVarnames(func)

\* C7 (as claimed): a call given the CodeContext of an earlier call starts
\* from the seeded varnames and returns what the earlier call returned.
C7_LocalsPrivate ==
  /\ (pc = "walk" /\ i = 0) => context.varnames = SeedVarnames(func)
  /\ \A n \in DOMAIN results :
       results[n].uses > 1 => results[n].refs = results[n - 1].refs

\* C8 (as claimed): get_code_context raises whenever co_freevars and the
\* closure differ in length, an empty one beside a non-empty one included,
\* and no instruction is dispatched.
C8_MismatchAlwaysRaises ==
  (pc # "start" /\ Len(func.co_freevars) # Len(func.closure))
    => (pc = "raised" /\ i = 0 /\ uses = 0)

\* C9 (as claimed): the keys of a built context's cells are the co_cellvars
\* and the co_freevars; a cell variable is bound to its own name, the n-th
\* free variable to the contents of the n-th cell of the closure.
C9_CellBindings ==
  context.built =>
    /\ DOMAIN context.cells = Range(func.co_cellvars) \cup Range(func.co_freevars)
    /\ \A x \in Range(func.co_cellvars) : context.cells[x] = PyStr(x)
    /\ \A n \in DOMAIN func.co_freevars :
         context.cells[func.co_freevars[n]] = func.closure[n]

\* C10 (as claimed): LOAD_GLOBAL first commits a pending tos, then sets tos
\* to the value the name has in the globals, or to the name when the globals
\* lack it; a RETURN_VALUE right after it commits what was loaded, the bound
\* value for a bound name and the name for an unbound one.
C10_LoadGlobal ==
  [][(pc = "walk" /\ i < Len(code)) =>
       /\ NextOp.opname = "LOAD_GLOBAL" =>
            /\ refs' = IF tos # None THEN Append(refs, tos) ELSE refs
            /\ tos' = IF NextOp.argval \in DOMAIN func.globals
                      THEN func.globals[NextOp.argval]
                      ELSE PyStr(NextOp.argval)
       /\ (i > 0 /\ code[i].opname = "LOAD_GLOBAL" /\ NextOp.opname = "RETURN_VALUE") =>
            LET loaded == IF code[i].argval \in DOMAIN func.globals
                          THEN func.globals[code[i].argval]
                          ELSE PyStr(code[i].argval)
            IN /\ refs' = Append(refs, loaded)
               /\ tos' = None]_vars

\* the instruction the last Step dispatched, the walk's state before it, and
\* refs with that state's pending tos committed
Stepped == pc \in {"walk", "done"} /\ i > 0
Last == code[i]
Before == At(i - 1)
Commit(S) == IF S.tos # None THEN Append(S.refs, S.tos) ELSE S.refs

C12_ImportName ==
  /\ (Stepped /\ Last.opname = "IMPORT_NAME") =>
       /\ refs = Commit(Before)
       /\ tos = IF Last.argval \in Importable THEN Module(Last.argval)
                ELSE PyStr(Last.argval)
       /\ warned = Before.warned
       /\ exc = NoExc
  /\ (Stepped /\ i > 1 /\ code[i - 1].opname = "IMPORT_NAME"
        /\ Last.opname = "RETURN_VALUE") =>
       /\ refs # <<>>
       /\ refs[Len(refs)] = IF code[i - 1].argval \in Importable
                            THEN Module(code[i - 1].argval)
                            ELSE PyStr(code[i - 1].argval)
       /\ tos = None

\* C13: an attribute load dispatched while tos is None appends the bare
\* attribute name to refs at once and leaves tos None.
C13_BareAttribute ==
  (Stepped /\ IsAttrOp(Last) /\ Before.tos = None) =>
    /\ refs = Append(Before.refs, PyStr(Last.argval))
    /\ tos = None

\* C13 witness: the object was consumed by a call, and the method called on
\* its result went to refs as a separate entry.
C13_Witness ==
  /\ Stepped /\ i = 3
  /\ code[1].opname = "LOAD_GLOBAL"
  /\ code[2].opname = "RETURN_VALUE"
  /\ refs = <<ObjG, PyStr("a")>>
  /\ tos = None

\* instruction k loads nothing: no global, captured variable, module or
\* attribute, and no local that is bound when it is dispatched
LoadsNothing(k) ==
  /\ code[k].opname \notin {"LOAD_GLOBAL", "LOAD_NAME", "LOAD_DEREF", "LOAD_CLOSURE",
                            "IMPORT_NAME"}
  /\ ~IsAttrOp(code[k])
  /\ ~(code[k].opname = "LOAD_FAST" /\ code[k].argval \in DOMAIN At(k - 1).varnames)

\* C14: a walk of instructions that load nothing returns the empty list.
C14_NothingLoaded ==
  (pc = "done" /\ \A k \in 1..Len(code) : LoadsNothing(k)) =>
    (refs = <<>> /\ results[1].refs = <<>>)

\* C14 witness: a store, a load of the unbound local and a return yielded
\* nothing, in a namespace that binds g.
C14_Witness ==
  /\ pc = "done"
  /\ Len(code) = 3
  /\ code[1].opname = "STORE_FAST"
  /\ code[2].opname = "LOAD_FAST"
  /\ code[3].opname = "RETURN_VALUE"
  /\ ~func.ismethod
  /\ func.globals = [x \in {"g"} |-> ObjG]
  /\ refs = <<>>

\* what get_references(f) returns for the instructions c when nothing else
\* runs
Alone(f, c) ==
  Returned(Walk(EnterWalk(SeedVarnames(f)), c, f.globals,
                get_code_context(f, FALSE).context.cells, "default"))

\* the state of a walk of f run alone, after the first k instructions of c
AloneAt(f, c, k) ==
  Walk(EnterWalk(SeedVarnames(f)), SubSeq(c, 1, k), f.globals,
       get_code_context(f, FALSE).context.cells, "default")

\* C15: two extractions on two callables, each with its own context, do not
\* interfere: however their steps interleave, each walk is at every
\* instruction in the state it has when run alone, and each returns what it
\* returns alone.
C15_Independent ==
  /\ pc \in {"walk", "done"} => Cur = AloneAt(func, code, i)
  /\ peer.pc \in {"walk", "done"} => PeerCur = AloneAt(peer.func, peer.code, peer.i)
  /\ pc = "done" => results = <<[refs |-> Alone(func, code), uses |-> 1]>>
  /\ peer.pc = "done" => peer.results = <<Alone(peer.func, peer.code)>>

\* C15 witness: both calls are under way at once, in callables of one
\* namespace: the first has loaded G and not yet committed it, the second
\* has loaded its receiver and not yet committed it.
C15_Witness ==
  /\ pc = "walk" /\ i = 1 /\ Len(code) = 2
  /\ tos = ObjG /\ refs = <<>>
  /\ peer.pc = "walk" /\ peer.i = 1 /\ Len(peer.code) = 2
  /\ peer.tos = Recv /\ peer.refs = <<>>
  /\ peer.func.globals = func.globals

\* C16: get_code_context gives a bound method the varnames {self: receiver}
\* and any other callable the empty varnames; so in a method's walk
\* LOAD_FAST self followed by LOAD_ATTR a, a an attribute of the receiver,
\* leaves tos = receiver.a and appends no bare a to refs.
C16_MethodSelf ==
  /\ pc = "built" =>
       context.varnames = IF func.ismethod THEN [x \in {"self"} |-> Recv]
                          ELSE EmptyDict
  /\ (Stepped /\ i >= 2 /\ func.ismethod
        /\ code[i - 1] = Ins("LOAD_FAST", "self", NoLine)
        /\ At(i - 2).varnames = [x \in {"self"} |-> Recv]
        /\ Last.opname = "LOAD_ATTR" /\ HasAttr(Recv, Last.argval)) =>
       /\ tos = getattr(Recv, Last.argval)
       /\ refs = Commit(At(i - 2))
       /\ warned = At(i - 2).warned

\* C16 witness: after a load of g, self.a of a bound method resolved to the
\* receiver's attribute; only g is in refs.
C16_Witness ==
  /\ Stepped /\ i = 3
  /\ func.ismethod
  /\ code[1].opname = "LOAD_GLOBAL"
  /\ code[2].opname = "LOAD_FAST"
  /\ code[3] = Ins("LOAD_ATTR", "a", NoLine)
  /\ refs = <<ObjG>>
  /\ tos = PyStr("42")

\* instruction k loads a resolved value: a global the namespace binds, or a
\* free variable (whose cell holds the value); ResolvedValue(k) is the value
Resolved(k) ==
  \/ code[k].opname = "LOAD_GLOBAL" /\ code[k].argval \in DOMAIN func.globals
  \/ code[k].opname = "LOAD_DEREF" /\ code[k].argval \in Range(func.co_freevars)
ResolvedValue(k) ==
  IF code[k].opname = "LOAD_GLOBAL" THEN func.globals[code[k].argval]
  ELSE context.cells[code[k].argval]

\* C17: an attribute load that follows the load of a resolved value v looks
\* the attribute up on v, whatever the type of v: tos becomes v.attr, or, when
\* v has no such attribute, the lookup fails (one more warning); a resolved
\* value is never extended to a dotted name.
C17_LookupOnEveryConcrete ==
  (Stepped /\ i >= 2 /\ IsAttrOp(Last) /\ Resolved(i - 1)) =>
    IF HasAttr(ResolvedValue(i - 1), Last.argval)
    THEN tos = getattr(ResolvedValue(i - 1), Last.argval) /\ warned = Before.warned
    ELSE Len(warned) = Len(Before.warned) + 1

\* n.a1.....ak for the name loaded by instruction j and the attribute loads
\* j+1..m
RECURSIVE DottedName(_, _)
DottedName(j, m) ==
  IF m = j THEN code[j].argval
  ELSE DottedName(j, m - 1) \o "." \o code[m].argval

\* C18: an attribute load dispatched while tos is a name string s sets tos to
\* s.attr and leaves refs alone; so an unresolved global n followed by
\* attribute loads only and then a RETURN_VALUE appends the one entry
\* n.a1.....ak.
C18_DottedName ==
  /\ (Stepped /\ IsAttrOp(Last) /\ Before.tos # None /\ IsStr(Before.tos)) =>
       /\ tos = PyStr(Before.tos.v \o "." \o Last.argval)
       /\ refs = Before.refs
  /\ \A j \in 1..(i - 2) :
       (/\ Stepped
        /\ code[j].opname = "LOAD_GLOBAL" /\ code[j].argval \notin DOMAIN func.globals
        /\ \A m \in (j + 1)..(i - 1) : IsAttrOp(code[m])
        /\ Last.opname = "RETURN_VALUE") =>
         /\ refs = Append(Commit(At(j - 1)), PyStr(DottedName(j, i - 1)))
         /\ tos = None

\* C18 witness: two attribute loads on the unbound g left the one pending
\* name g.a.b and nothing in refs.
C18_Witness ==
  /\ Stepped /\ i = 3
  /\ code[1].opname = "LOAD_GLOBAL"
  /\ IsAttrOp(code[2]) /\ IsAttrOp(code[3])
  /\ tos = PyStr("g.a.b")
  /\ refs = <<>>

\* C19: after a LOAD_GLOBAL of a name the namespace binds, a LOAD_DEREF of a
\* bound cell or a LOAD_FAST of a bound local that raised nothing, tos is not
\* the empty register, whatever the value loaded.
C19_LoadedIsPending ==
  (/\ Stepped
   /\ \/ Last.opname = "LOAD_GLOBAL" /\ Last.argval \in DOMAIN func.globals
      \/ Last.opname = "LOAD_DEREF" /\ Last.argval \in DOMAIN context.cells
      \/ Last.opname = "LOAD_FAST" /\ Last.argval \in DOMAIN Before.varnames
   /\ warned = Before.warned) =>
    tos # None

\* C20: STORE_FAST dispatched with a pending tos, whatever its value, binds
\* the local to it, empties tos and appends nothing to refs.
C20_StoreBindsPending ==
  (Stepped /\ Last.opname = "STORE_FAST" /\ Before.tos # None) =>
    /\ context.varnames = DictSet(Before.varnames, Last.argval, Before.tos)
    /\ tos = None
    /\ refs = Before.refs

\* C21: DELETE_FAST dispatched with a pending tos, whatever its value and
\* whether or not the local was bound, leaves the local unbound and tos
\* empty and appends nothing to refs.
C21_DeleteDropsPending ==
  (Stepped /\ Last.opname = "DELETE_FAST" /\ Before.tos # None) =>
    /\ Last.argval \notin DOMAIN context.varnames
    /\ tos = None
    /\ refs = Before.refs

\* C22: STORE_FAST and DELETE_FAST dispatched with tos None change neither
\* context.varnames nor tos nor refs, and warn nothing; so a local stored
\* with tos None stays unbound and the LOAD_FAST after it loads nothing.
C22_EmptyStoreDelete ==
  /\ (Stepped /\ Last.opname \in {"STORE_FAST", "DELETE_FAST"} /\ Before.tos = None) =>
       /\ context.varnames = Before.varnames
       /\ tos = None
       /\ refs = Before.refs
       /\ warned = Before.warned
  /\ (Stepped /\ i >= 2 /\ Last.opname = "LOAD_FAST"
        /\ code[i - 1].opname = "STORE_FAST" /\ code[i - 1].argval = Last.argval
        /\ At(i - 2).tos = None /\ Last.argval \notin DOMAIN At(i - 2).varnames) =>
       /\ tos = None
       /\ refs = Before.refs

\* C22 witness: G was committed by the instruction that consumed it, and the
\* store that followed bound nothing.
C22_Witness ==
  /\ Stepped /\ i = 3
  /\ code[1].opname = "LOAD_GLOBAL"
  /\ code[2].opname = "RETURN_VALUE"
  /\ code[3].opname = "STORE_FAST"
  /\ ~func.ismethod
  /\ refs = <<ObjG>>
  /\ tos = None
  /\ context.varnames = EmptyDict

\* C23: when STORE_FAST n has stored the pending value v and no STORE_FAST or
\* DELETE_FAST of n follows it, a later LOAD_FAST n commits the tos pending
\* then, sets tos to v and leaves context.varnames as it was.
C23_StoreLoad ==
  \A j \in 1..(i - 1) :
    (/\ Stepped
     /\ code[j].opname = "STORE_FAST"
     /\ At(j - 1).tos # None
     /\ code[j].argval \in DOMAIN At(j).varnames
     /\ At(j).varnames[code[j].argval] = At(j - 1).tos
     /\ \A m \in (j + 1)..(i - 1) :
          ~(code[m].opname \in {"STORE_FAST", "DELETE_FAST"}
              /\ code[m].argval = code[j].argval)
     /\ Last.opname = "LOAD_FAST" /\ Last.argval = code[j].argval) =>
      /\ tos = At(j - 1).tos
      /\ refs = Commit(Before)
      /\ context.varnames = Before.varnames

\* C23 witness: G was stored in the local, and the load brought it back.
C23_Witness ==
  /\ Stepped /\ i = 3
  /\ code[1].opname = "LOAD_GLOBAL"
  /\ code[2].opname = "STORE_FAST"
  /\ code[3].opname = "LOAD_FAST"
  /\ ~func.ismethod
  /\ tos = ObjG
  /\ refs = <<>>
  /\ context.varnames = [x \in {"self"} |-> ObjG]

\* C24: an instruction the if/elif chain does not name, and a LOAD_FAST of a
\* name context.varnames lacks, append a pending tos to refs and leave tos
\* None; with tos None they change nothing. They never change
\* context.varnames.
C24_DefaultBranch ==
  (/\ Stepped
   /\ \/ Last.opname = "RETURN_VALUE"
      \/ Last.opname = "LOAD_FAST" /\ Last.argval \notin DOMAIN Before.varnames) =>
    /\ refs = Commit(Before)
    /\ tos = None
    /\ context.varnames = Before.varnames
    /\ warned = Before.warned

\* C24 witness: the load of an unbound local committed the pending G.
C24_Witness ==
  /\ Stepped /\ i = 2
  /\ code[1].opname = "LOAD_GLOBAL"
  /\ code[2].opname = "LOAD_FAST"
  /\ ~func.ismethod
  /\ refs = <<ObjG>>
  /\ tos = None

\* C25 as stated: every instruction appends at most one entry to refs and
\* either extends tos, commits it or leaves it untouched; refs is never
\* longer than the number of instructions dispatched, and the list returned
\* has at most one entry more than the stream has instructions.
C25_OneOfThree ==
  /\ Stepped =>
       LET B == Before
           untouched == tos = B.tos
           commits == B.tos # None /\ refs = Commit(B)
           extends == refs = B.refs /\ (B.tos = None \/ IsAttrOp(Last))
       IN /\ Len(refs) <= Len(B.refs) + 1
          /\ IsPrefix(B.refs, refs)
          /\ untouched \/ commits \/ extends
          /\ Len(refs) <= i
  /\ pc = "done" => Len(results[1].refs) <= Len(code) + 1

\* C25, amended: every instruction appends at most one entry to refs and
\* either extends tos, commits it, leaves it untouched or, for a STORE_FAST
\* or DELETE_FAST with a pending tos, clears it without an entry in refs;
\* the bounds on the length of refs are as stated.
C25_OneOfFour ==
  /\ Stepped =>
       LET B == Before
           untouched == tos = B.tos
           commits == B.tos # None /\ refs = Commit(B)
           extends == refs = B.refs /\ (B.tos = None \/ IsAttrOp(Last))
           consumed == Last.opname \in {"STORE_FAST", "DELETE_FAST"}
                         /\ B.tos # None /\ tos = None /\ refs = B.refs
       IN /\ Len(refs) <= Len(B.refs) + 1
          /\ IsPrefix(B.refs, refs)
          /\ untouched \/ commits \/ extends \/ consumed
          /\ Len(refs) <= i
  /\ pc = "done" => Len(results[1].refs) <= Len(code) + 1

\* C25 witness: three instructions appended three entries, and the delete
\* before the return took the pending receiver without an entry.
C25_Witness ==
  /\ pc = "done"
  /\ func.ismethod
  /\ Len(code) = 3
  /\ code[1].opname = "LOAD_FAST"
  /\ code[2].opname = "DELETE_FAST"
  /\ code[3].opname = "RETURN_VALUE"
  /\ results[1].refs = <<>>
  /\ context.varnames = EmptyDict

\* the stream c with every starts_line None
Unmarked(c) == [k \in DOMAIN c |-> Ins(c[k].opname, c[k].argval, NoLine)]

\* the starts_line of the last of the first k instructions that has one
LastMarker(k) ==
  LET marked == {m \in 1..k : code[m].starts_line # NoLine}
  IN IF marked = {} THEN NoLine
     ELSE code[CHOOSE m \in marked : \A n \in marked : n <= m].starts_line

\* the instructions the warnings w were given for, without their lines
FailedOn(w) == [k \in DOMAIN w |-> [exc |-> w[k].exc, arg |-> w[k].arg]]

\* C28: lineno is the starts_line of the most recent instruction that has
\* one (None if none has), and the lines change nothing else: the walk of the
\* same stream without any starts_line has the same refs, tos and
\* context.varnames and fails on the same instructions.
C28_LinesOnlyInWarnings ==
  Stepped =>
    LET U == Walk(EnterWalk(SeedVarnames(func)), Unmarked(SubSeq(code, 1, i)),
                  CtxGlobals, context.cells, "default")
    IN /\ lineno = LastMarker(i)
       /\ U.lineno = NoLine
       /\ U.refs = refs
       /\ U.tos = tos
       /\ U.varnames = context.varnames
       /\ FailedOn(U.warned) = FailedOn(warned)

\* C28 witness: a stream with two line markers; the failed import was
\* reported at line 2 and G was returned.
C28_Witness ==
  /\ pc = "done"
  /\ code = <<Ins("LOAD_GLOBAL", "g", 1), Ins("IMPORT_NAME", "", 2),
              Ins("RETURN_VALUE", "", NoLine)>>
  /\ lineno = 2
  /\ warned = <<[line |-> 2, exc |-> "ValueError", arg |-> ""]>>
  /\ refs = <<ObjG>>

\* C29: refs never holds None, at any point of a walk and in the list
\* returned, also after a getattr that returned None.
C29_NoEmptyEntry ==
  /\ \A k \in DOMAIN refs : refs[k] # None
  /\ \A r \in DOMAIN results : \A k \in DOMAIN results[r].refs : results[r].refs[k] # None

\* C29 witness: G.a.a is None; the entry before it was committed and the
\* None was not.
C29_Witness ==
  /\ Stepped /\ i = 3
  /\ IsAttrOp(code[2]) /\ IsAttrOp(code[3])
  /\ At(2).tos = ObjGa
  /\ tos = None
  /\ refs = <<>>

\* C26: no step of the walk, a failing one included, changes the callable's
\* namespace, context.cells or the instruction stream; what a step writes is
\* tos, lineno, refs, the warnings and context.varnames.
C26_WalkReadsOnly ==
  [][(i' = i + 1) =>
       (func' = func /\ context'.cells = context.cells /\ code' = code)]_vars

\* C26 witness: a walk with a failed lookup and a store into a local, in a
\* context with a cell and a namespace that binds g.
C26_Witness ==
  /\ Stepped /\ i = 3
  /\ warned # <<>>
  /\ ~func.ismethod
  /\ context.varnames = [x \in {"self"} |-> ObjG]
  /\ context.cells # EmptyDict
  /\ func.globals = [x \in {"g"} |-> ObjG]

\* C27: a binding added to the callable's namespace after the context was
\* built is not seen through that context: no namespace binds h when the
\* context is built, so LOAD_GLOBAL h leaves the name h in tos.
C27_BuildTimeGlobals ==
  (Stepped /\ Last.opname = "LOAD_GLOBAL" /\ Last.argval = "h") => tos = PyStr("h")

\* C30 (as claimed): the walk terminates: the instructions are dispatched in
\* stream order, each once, a failing one like any other (after i steps the
\* walk is in the state the first i instructions lead to, and a step
\* advances by one instruction), no failure ends the walk early, and the
\* call returns after exactly as many steps as the stream has instructions.
C30_Terminates ==
  /\ [](pc \in {"walk", "done"} => (i <= Len(code) /\ Cur = At(i)))
  /\ [](pc = "done" => (i = Len(code) /\ results = <<[refs |-> refs, uses |-> 1]>>))
  /\ [](pc # "raised")
  /\ [][(pc = "walk" /\ i' # i) => (i' = i + 1 /\ pc' = "walk")]_vars
  /\ <>(pc = "done")
====
